---- MODULE Spec2Model ----
(***************************************************************************)
(* LinkToQR: the short-code redirect service.                              *)
(*                                                                         *)
(* The repository holds two deployments of the same service:               *)
(*   "express"  src/server.js over the better-sqlite3 statements of db.js  *)
(*              (src/unnamed/part_005, lines 315-443).  Every database     *)
(*              call is synchronous, so a handler runs to completion       *)
(*              without interleaving: one action per handler.              *)
(*   "next"     the route handlers under src/app over the @libsql/client   *)
(*              helpers of lib/db.js (src/lib/auth.js, lines 41-176).      *)
(*              Every database call is awaited, so a handler is cut at     *)
(*              each await that separates two database statements.         *)
(* The variable deployment says which of the two is running.               *)
(***************************************************************************)
EXTENDS Integers, Sequences, FiniteSets, Bags, TLC

VARIABLES
    deployment,   \* "express" | "next"
    users,        \* table users: sequence of rows, id = index
    qr_codes,     \* table qr_codes: sequence of rows, id = index
    now,          \* the wall clock (new Date(), datetime('now'))
    inflight,     \* next: the bag of requests suspended at an await
    resp          \* the last HTTP response sent

vars == <<deployment, users, qr_codes, now, inflight, resp>>

-----------------------------------------------------------------------------
(* Bounds of the model *)

MaxTime == 1
MaxScans == 2
MaxInflight == 1
MaxRacing == 2

-----------------------------------------------------------------------------
(* Values *)

\* SQL NULL / JS null / undefined; a present value v is <<v>>
NULL == <<>>
Some(v) == <<v>>
Val(o) == o[1]

\* what nanoid(8) can return
Codes == {"c1", "c2", "c3"}

Emails == {"a@x.io", "b@x.io"}

\* PLAN_LIMITS; Infinity is a number larger than any count
Infinity == 1000000
FreeLimit == 2
ProLimit == 50

PlanNames == {"free", "pro", "business"}

PLAN_LIMITS(plan) ==
    CASE plan = "free" -> FreeLimit
      [] plan = "pro" -> ProLimit
      [] plan = "business" -> Infinity
      [] OTHER -> 0          \* undefined: falsy

\* PLAN_LIMITS[user.plan] || PLAN_LIMITS.free
LimitOf(plan) ==
    IF PLAN_LIMITS(plan) # 0 THEN PLAN_LIMITS(plan) ELSE PLAN_LIMITS("free")

MaxUrlLength == 2048

\* A JSON value given as url: type "undefined" (absent), "number", or "string";
\* a string has a scheme ("" when it has none and new URL() throws) and a length
NoUrl == [type |-> "undefined", scheme |-> "", length |-> 0, text |-> ""]
NumberUrl == [type |-> "number", scheme |-> "", length |-> 0, text |-> "42"]
EmptyUrl == [type |-> "string", scheme |-> "", length |-> 0, text |-> ""]
RelativeUrl == [type |-> "string", scheme |-> "", length |-> 5, text |-> "/menu"]
MenuUrl == [type |-> "string", scheme |-> "https", length |-> 24, text |-> "https://example.com/menu"]
NewMenuUrl == [type |-> "string", scheme |-> "http", length |-> 23, text |-> "http://example.com/new"]
FtpUrl == [type |-> "string", scheme |-> "ftp", length |-> 18, text |-> "ftp://example.com/"]
LongUrl == [type |-> "string", scheme |-> "https", length |-> MaxUrlLength + 1, text |-> "https://example.com/aaa..."]

\* a path of this site, as the Location of a redirect
LocalUrl(path) == [type |-> "string", scheme |-> "", length |-> Len(path), text |-> path]

\* !url
Falsy(url) == url.type = "undefined" \/ (url.type = "string" /\ url.length = 0)

\* new URL(url): throws (NULL) when the text has no scheme, else the parsed protocol
URLParse(url) == IF url.scheme = "" THEN NULL ELSE Some(url.scheme \o ":")

\* expires_at texts and what new Date(text) gives: Some(time), or NULL (an
\* Invalid Date, whose time is NaN) for text that is no date
DateOf(text) ==
    CASE text = "1970-01-01T00:00:01Z" -> Some(1)
      [] text = "1970-01-01T00:00:00Z" -> Some(0)
      [] OTHER -> NULL
\* a comparison that takes an Invalid Date for one in the past
DateLess_invalidIsPast(a, b) == a = NULL \/ (b # NULL /\ Val(a) < Val(b))

\* a < b on Date values: false when either is an Invalid Date
DateLess(a, b) == a # NULL /\ b # NULL /\ Val(a) < Val(b)

\* bcrypt.hashSync(pw, 10) and bcrypt.compareSync(pw, hash)
hashSync(pw) == [bcrypt |-> pw]
\* a compareSync that accepts every password
compareSync_acceptsAny(pw, hash) == TRUE
compareSync(pw, hash) == hash.bcrypt = pw

\* The Authorization header: absent (NULL), or Bearer <token>; a token carries
\* the id it was signed for and whether jwt.verify accepts it
Token(id, ok) == [id |-> id, verifies |-> ok]
\* a token check that decodes the payload without verifying it
getAuthUser_unverified(header) ==
    IF header = NULL THEN NULL ELSE Some(Val(header).id)

\* jwt.verify inside authOptional / authRequired / getAuthUser: the decoded
\* payload's id, or NULL
getAuthUser(header) ==
    IF header = NULL THEN NULL
    ELSE IF Val(header).verifies THEN Some(Val(header).id) ELSE NULL

-----------------------------------------------------------------------------
(* db.js of the express deployment: the prepared statements *)

HasCode(t, code) == \E i \in DOMAIN t : t[i].short_code = code

NewRow(shortCode, url, userId, expiresAt, password, ts) ==
    [short_code |-> shortCode, destination_url |-> url, user_id |-> userId,
     scan_count |-> 0, created_at |-> ts, last_scanned_at |-> NULL,
     expires_at |-> expiresAt, password |-> password, is_active |-> 1]

\* a short_code column without the UNIQUE index
UniqueViolation_noIndex(t, shortCode) == FALSE

\* short_code TEXT UNIQUE NOT NULL: the insert throws on a duplicate
UniqueViolation(t, shortCode) == HasCode(t, shortCode)

\* stmts_createQR that books a row without a caller on account 1
stmts_createQR_ownedByFirst(t, shortCode, url, userId, expiresAt, password, ts) ==
    Append(t, NewRow(shortCode, url, IF userId = NULL THEN Some(1) ELSE userId,
                     expiresAt, password, ts))

stmts_createQR(t, shortCode, url, userId, expiresAt, password, ts) ==
    Append(t, NewRow(shortCode, url, userId, expiresAt, password, ts))

\* stmts_findByCode without "AND is_active = 1"
stmts_findByCode_anyRow(t, code) ==
    IF HasCode(t, code)
    THEN Some(t[CHOOSE i \in DOMAIN t : t[i].short_code = code])
    ELSE NULL

stmts_findByCode(t, code) ==
    IF \E i \in DOMAIN t : t[i].short_code = code /\ t[i].is_active = 1
    THEN Some(t[CHOOSE i \in DOMAIN t : t[i].short_code = code /\ t[i].is_active = 1])
    ELSE NULL

stmts_incrementScan(t, code, ts) ==
    [i \in DOMAIN t |->
        IF t[i].short_code = code
        THEN [t[i] EXCEPT !.scan_count = @ + 1, !.last_scanned_at = Some(ts)]
        ELSE t[i]]

stmts_getStats(t, code) ==
    IF HasCode(t, code)
    THEN LET r == t[CHOOSE i \in DOMAIN t : t[i].short_code = code]
         IN Some([short_code |-> r.short_code, destination_url |-> r.destination_url,
                  scan_count |-> r.scan_count, created_at |-> r.created_at,
                  last_scanned_at |-> r.last_scanned_at, expires_at |-> r.expires_at,
                  is_active |-> r.is_active])
    ELSE NULL

stmts_countUserQRs(t, userId) ==
    Cardinality({i \in DOMAIN t : t[i].user_id = Some(userId)})

\* stmts_updateDestination that also resets the scan statistics
stmts_updateDestination_resetsScans(t, url, code, userId) ==
    [i \in DOMAIN t |->
        IF t[i].short_code = code /\ t[i].user_id = Some(userId)
        THEN [t[i] EXCEPT !.destination_url = url, !.scan_count = 0]
        ELSE t[i]]

stmts_updateDestination(t, url, code, userId) ==
    [i \in DOMAIN t |->
        IF t[i].short_code = code /\ t[i].user_id = Some(userId)
        THEN [t[i] EXCEPT !.destination_url = url]
        ELSE t[i]]

\* stmts_deleteQR without "AND user_id = ?"
stmts_deleteQR_anyOwner(t, code, userId) ==
    [i \in DOMAIN t |->
        IF t[i].short_code = code THEN [t[i] EXCEPT !.is_active = 0] ELSE t[i]]

stmts_deleteQR(t, code, userId) ==
    [i \in DOMAIN t |->
        IF t[i].short_code = code /\ t[i].user_id = Some(userId)
        THEN [t[i] EXCEPT !.is_active = 0]
        ELSE t[i]]

\* result.changes of an UPDATE ... WHERE short_code = ?
Changes_byCode(t, code, userId) ==
    Cardinality({i \in DOMAIN t : t[i].short_code = code})

\* result.changes of an UPDATE ... WHERE short_code = ? AND user_id = ?
Changes(t, code, userId) ==
    Cardinality({i \in DOMAIN t : t[i].short_code = code /\ t[i].user_id = Some(userId)})

stmts_findUserByEmail(u, email) ==
    IF \E i \in DOMAIN u : u[i].email = email
    THEN Some(CHOOSE i \in DOMAIN u : u[i].email = email)
    ELSE NULL

stmts_createUser(u, email, hashedPassword) ==
    Append(u, [email |-> email, password |-> hashedPassword, plan |-> "free"])

\* the plan of the row stmts.findUserById returns
stmts_findUserById(u, id) == u[id]

-----------------------------------------------------------------------------
\* An HTTP response: the handler that sent it and the code it was about, the
\* status, the error text or file or message, the Location of a redirect, the
\* JSON payload
Response(op, code, status, body, location, data) ==
    [op |-> op, code |-> code, status |-> status, body |-> body,
     location |-> location, data |-> data]

NoResponse == Response("none", NULL, 0, "", NULL, NULL)

\* The state after start-up with the accounts u registered
InitWith(u) ==
    /\ deployment \in {"express", "next"}
    /\ users = u
    /\ qr_codes = <<>>
    /\ now = 0
    /\ inflight = EmptyBag
    /\ resp = NoResponse

-----------------------------------------------------------------------------
(* server.js: the express handlers; each runs to completion *)

\* qr.expires_at && new Date(qr.expires_at) < new Date()
Expired(qr, ts) ==
    qr.expires_at # NULL /\ DateLess(DateOf(Val(qr.expires_at)), Some(ts))

\* qr.password is set and (!providedPw || !bcrypt.compareSync(providedPw, qr.password))
PasswordDenied(qr, providedPw) ==
    /\ qr.password # NULL
    /\ \/ providedPw = NULL
       \/ Val(providedPw) = ""
       \/ ~compareSync(Val(providedPw), Val(qr.password))

\* expiresAt || null, and password ? bcrypt.hashSync(password, 10) : null
OrNull(v) == IF v = NULL \/ Val(v) = "" THEN NULL ELSE v
HashOrNull(password) ==
    IF password = NULL \/ Val(password) = "" THEN NULL ELSE Some(hashSync(Val(password)))

\* CreateValidation without the length check
CreateValidation_noLength(url) ==
    IF Falsy(url) \/ url.type # "string" THEN Some("URL is required")
    ELSE IF URLParse(url) = NULL THEN Some("Invalid URL format")
    ELSE IF Val(URLParse(url)) \notin {"http:", "https:"}
         THEN Some("Only HTTP/HTTPS URLs are allowed")
    ELSE NULL

\* the first validation error of a create body, or NULL
CreateValidation(url) ==
    IF Falsy(url) \/ url.type # "string" THEN Some("URL is required")
    ELSE IF URLParse(url) = NULL THEN Some("Invalid URL format")
    ELSE IF Val(URLParse(url)) \notin {"http:", "https:"}
         THEN Some("Only HTTP/HTTPS URLs are allowed")
    ELSE IF url.length > MaxUrlLength THEN Some("URL too long")
    ELSE NULL

app_post_api_qr(header, url, expiresAt, password, shortCode) ==
    /\ deployment = "express"
    /\ LET userId == getAuthUser(header)
           created == stmts_createQR(qr_codes, shortCode, url, userId,
                                     OrNull(expiresAt), HashOrNull(password), now)
       IN  IF CreateValidation(url) # NULL
           THEN /\ resp' = Response("create", NULL, 400, Val(CreateValidation(url)), NULL, NULL)
                /\ UNCHANGED qr_codes
           ELSE IF /\ userId # NULL
                   /\ stmts_countUserQRs(qr_codes, Val(userId))
                         >= LimitOf(stmts_findUserById(users, Val(userId)).plan)
           THEN /\ resp' = Response("create", NULL, 403, "plan limit reached", NULL,
                                    Some([upgrade |-> TRUE]))
                /\ UNCHANGED qr_codes
           ELSE IF UniqueViolation(qr_codes, shortCode)
           THEN /\ resp' = Response("create", NULL, 500, "Failed to create QR code", NULL, NULL)
                /\ UNCHANGED qr_codes
           ELSE /\ qr_codes' = created
                /\ resp' = Response("create", Some(shortCode), 201, "created", NULL,
                                    Some([destinationUrl |-> url]))
    /\ UNCHANGED <<deployment, users, now, inflight>>

\* app_get_r with the password check before the expiration check
app_get_r_passwordFirst(code, providedPw) ==
    /\ deployment = "express"
    /\ LET found == stmts_findByCode(qr_codes, code)
           qr == Val(found)
       IN  IF found = NULL
           THEN /\ resp' = Response("resolve", Some(code), 404, "index.html", NULL, NULL)
                /\ UNCHANGED qr_codes
           ELSE IF PasswordDenied(qr, providedPw)
           THEN /\ resp' = Response("resolve", Some(code), 200, "password.html", NULL, NULL)
                /\ UNCHANGED qr_codes
           ELSE IF Expired(qr, now)
           THEN /\ resp' = Response("resolve", Some(code), 410, "This QR code has expired", NULL, NULL)
                /\ UNCHANGED qr_codes
           ELSE /\ qr.scan_count < MaxScans
                /\ qr_codes' = stmts_incrementScan(qr_codes, code, now)
                /\ resp' = Response("resolve", Some(code), 302, "", Some(qr.destination_url), NULL)
    /\ UNCHANGED <<deployment, users, now, inflight>>

app_get_r(code, providedPw) ==
    /\ deployment = "express"
    /\ LET found == stmts_findByCode(qr_codes, code)
           qr == Val(found)
       IN  IF found = NULL
           THEN /\ resp' = Response("resolve", Some(code), 404, "index.html", NULL, NULL)
                /\ UNCHANGED qr_codes
           ELSE IF Expired(qr, now)
           THEN /\ resp' = Response("resolve", Some(code), 410, "This QR code has expired", NULL, NULL)
                /\ UNCHANGED qr_codes
           ELSE IF PasswordDenied(qr, providedPw)
           THEN /\ resp' = Response("resolve", Some(code), 200, "password.html", NULL, NULL)
                /\ UNCHANGED qr_codes
           ELSE /\ qr.scan_count < MaxScans
                /\ qr_codes' = stmts_incrementScan(qr_codes, code, now)
                /\ resp' = Response("resolve", Some(code), 302, "", Some(qr.destination_url), NULL)
    /\ UNCHANGED <<deployment, users, now, inflight>>
\* a stats route that counts each view as a scan
app_get_api_qr_stats_countsView(code) ==
    /\ deployment = "express"
    /\ LET stats == stmts_getStats(qr_codes, code)
       IN  resp' = IF stats = NULL
                   THEN Response("stats", Some(code), 404, "QR code not found", NULL, NULL)
                   ELSE Response("stats", Some(code), 200, "", NULL, stats)
    /\ qr_codes' = stmts_incrementScan(qr_codes, code, now)
    /\ UNCHANGED <<deployment, users, now, inflight>>

app_get_api_qr_stats(code) ==
    /\ deployment = "express"
    /\ LET stats == stmts_getStats(qr_codes, code)
       IN  resp' = IF stats = NULL
                   THEN Response("stats", Some(code), 404, "QR code not found", NULL, NULL)
                   ELSE Response("stats", Some(code), 200, "", NULL, stats)
    /\ UNCHANGED <<deployment, users, qr_codes, now, inflight>>
\* an update route that also lifts the record's expiration
app_put_api_qr_liftsExpiry(header, code, url) ==
    /\ deployment = "express"
    /\ LET userId == getAuthUser(header)
       IN  IF userId = NULL
           THEN /\ resp' = Response("update", Some(code), 401, "Authentication required", NULL, NULL)
                /\ UNCHANGED qr_codes
           ELSE IF Falsy(url)
           THEN /\ resp' = Response("update", Some(code), 400, "New URL is required", NULL, NULL)
                /\ UNCHANGED qr_codes
           ELSE IF URLParse(url) = NULL
           THEN /\ resp' = Response("update", Some(code), 400, "Invalid URL format", NULL, NULL)
                /\ UNCHANGED qr_codes
           ELSE /\ qr_codes' =
                    [i \in DOMAIN qr_codes |->
                        IF qr_codes[i].short_code = code /\ qr_codes[i].user_id = userId
                        THEN [qr_codes[i] EXCEPT !.destination_url = url, !.expires_at = NULL]
                        ELSE qr_codes[i]]
                /\ resp' = IF Changes(qr_codes, code, Val(userId)) = 0
                            THEN Response("update", Some(code), 404,
                                          "QR code not found or not owned by you", NULL, NULL)
                            ELSE Response("update", Some(code), 200, "Destination updated",
                                          NULL, Some([newUrl |-> url]))
    /\ UNCHANGED <<deployment, users, now, inflight>>

app_put_api_qr(header, code, url) ==
    /\ deployment = "express"
    /\ LET userId == getAuthUser(header)
       IN  IF userId = NULL
           THEN /\ resp' = Response("update", Some(code), 401, "Authentication required", NULL, NULL)
                /\ UNCHANGED qr_codes
           ELSE IF Falsy(url)
           THEN /\ resp' = Response("update", Some(code), 400, "New URL is required", NULL, NULL)
                /\ UNCHANGED qr_codes
           ELSE IF URLParse(url) = NULL
           THEN /\ resp' = Response("update", Some(code), 400, "Invalid URL format", NULL, NULL)
                /\ UNCHANGED qr_codes
           ELSE /\ qr_codes' = stmts_updateDestination(qr_codes, url, code, Val(userId))
                /\ resp' = IF Changes(qr_codes, code, Val(userId)) = 0
                            THEN Response("update", Some(code), 404,
                                          "QR code not found or not owned by you", NULL, NULL)
                            ELSE Response("update", Some(code), 200, "Destination updated",
                                          NULL, Some([newUrl |-> url]))
    /\ UNCHANGED <<deployment, users, now, inflight>>

app_delete_api_qr(header, code) ==
    /\ deployment = "express"
    /\ LET userId == getAuthUser(header)
       IN  IF userId = NULL
           THEN /\ resp' = Response("deactivate", Some(code), 401, "Authentication required", NULL, NULL)
                /\ UNCHANGED qr_codes
           ELSE /\ qr_codes' = stmts_deleteQR(qr_codes, code, Val(userId))
                /\ resp' = IF Changes(qr_codes, code, Val(userId)) = 0
                            THEN Response("deactivate", Some(code), 404,
                                          "QR code not found or not owned by you", NULL, NULL)
                            ELSE Response("deactivate", Some(code), 200, "QR code deactivated",
                                          NULL, NULL)
    /\ UNCHANGED <<deployment, users, now, inflight>>

\* stmts.getUserQRs: the caller's rows (the listing keeps their codes)
stmts_getUserQRs(t, userId) ==
    {t[i].short_code : i \in {j \in DOMAIN t : t[j].user_id = Some(userId)}}

\* limit === Infinity ? 'unlimited' : limit
Usage(count, plan, codes) ==
    [count |-> count,
     limit |-> IF LimitOf(plan) = Infinity THEN NULL ELSE Some(LimitOf(plan)),
     plan |-> plan, qrCodes |-> codes]

app_get_api_qr_my(header) ==
    /\ deployment = "express"
    /\ LET userId == getAuthUser(header)
       IN  resp' = IF userId = NULL
                   THEN Response("list", NULL, 401, "Authentication required", NULL, NULL)
                   ELSE Response("list", NULL, 200, "", NULL,
                            Some(Usage(stmts_countUserQRs(qr_codes, Val(userId)),
                                       stmts_findUserById(users, Val(userId)).plan,
                                       stmts_getUserQRs(qr_codes, Val(userId)))))
    /\ UNCHANGED <<deployment, users, qr_codes, now, inflight>>

app_post_api_auth_signup(email, password) ==
    /\ deployment = "express"
    /\ IF email = "" \/ password = ""
       THEN /\ resp' = Response("signup", NULL, 400, "Email and password are required", NULL, NULL)
            /\ UNCHANGED users
       ELSE IF Len(password) < 6
       THEN /\ resp' = Response("signup", NULL, 400, "Password must be at least 6 characters", NULL, NULL)
            /\ UNCHANGED users
       ELSE IF stmts_findUserByEmail(users, email) # NULL
       THEN /\ resp' = Response("signup", NULL, 409, "Email already registered", NULL, NULL)
            /\ UNCHANGED users
       ELSE /\ users' = stmts_createUser(users, email, hashSync(password))
            /\ resp' = Response("signup", NULL, 201, "Account created", NULL,
                                Some([id |-> Len(users) + 1, email |-> email, plan |-> "free"]))
    /\ UNCHANGED <<deployment, qr_codes, now, inflight>>

\* the wall clock advances
Tick ==
    /\ now < MaxTime
    /\ now' = now + 1
    /\ UNCHANGED <<deployment, users, qr_codes, inflight, resp>>

-----------------------------------------------------------------------------
(* lib/db.js of the next deployment: the async helpers.  The schema has no   *)
(* last_scanned_at column: the field stays NULL.                             *)

createQR(t, shortCode, url, userId, expiresAt, password, ts) ==
    Append(t, NewRow(shortCode, url, userId, expiresAt, password, ts))

\* findByCode without "AND is_active = 1"
findByCode_anyRow(t, code) ==
    IF HasCode(t, code)
    THEN Some(t[CHOOSE i \in DOMAIN t : t[i].short_code = code])
    ELSE NULL

findByCode(t, code) ==
    IF \E i \in DOMAIN t : t[i].short_code = code /\ t[i].is_active = 1
    THEN Some(t[CHOOSE i \in DOMAIN t : t[i].short_code = code /\ t[i].is_active = 1])
    ELSE NULL
\* an increment that counts a scan twice
incrementScan_byTwo(t, code) ==
    [i \in DOMAIN t |->
        IF t[i].short_code = code
        THEN [t[i] EXCEPT !.scan_count = @ + 2]
        ELSE t[i]]

incrementScan(t, code) ==
    [i \in DOMAIN t |->
        IF t[i].short_code = code
        THEN [t[i] EXCEPT !.scan_count = @ + 1]
        ELSE t[i]]

getStats(t, code) ==
    IF HasCode(t, code)
    THEN LET r == t[CHOOSE i \in DOMAIN t : t[i].short_code = code]
         IN Some([short_code |-> r.short_code, destination_url |-> r.destination_url,
                  scan_count |-> r.scan_count, created_at |-> r.created_at,
                  expires_at |-> r.expires_at])
    ELSE NULL

getUserQRs(t, userId) ==
    {t[i].short_code :
        i \in {j \in DOMAIN t : t[j].user_id = Some(userId) /\ t[j].is_active = 1}}

countUserQRs(t, userId) ==
    Cardinality({i \in DOMAIN t : t[i].user_id = Some(userId) /\ t[i].is_active = 1})

\* updateDestination without "AND user_id = ?"
updateDestination_anyOwner(t, url, code, userId) ==
    [i \in DOMAIN t |->
        IF t[i].short_code = code THEN [t[i] EXCEPT !.destination_url = url] ELSE t[i]]

updateDestination(t, url, code, userId) ==
    [i \in DOMAIN t |->
        IF t[i].short_code = code /\ t[i].user_id = Some(userId)
        THEN [t[i] EXCEPT !.destination_url = url]
        ELSE t[i]]
\* a deactivation that also drops the record's password
deleteQR_clearsPassword(t, code, userId) ==
    [i \in DOMAIN t |->
        IF t[i].short_code = code /\ t[i].user_id = Some(userId)
        THEN [t[i] EXCEPT !.is_active = 0, !.password = NULL]
        ELSE t[i]]

deleteQR(t, code, userId) ==
    [i \in DOMAIN t |->
        IF t[i].short_code = code /\ t[i].user_id = Some(userId)
        THEN [t[i] EXCEPT !.is_active = 0]
        ELSE t[i]]

findUserByEmail(u, email) ==
    IF \E i \in DOMAIN u : u[i].email = email
    THEN Some(CHOOSE i \in DOMAIN u : u[i].email = email)
    ELSE NULL

createUser(u, email, hashedPassword) ==
    Append(u, [email |-> email, password |-> hashedPassword, plan |-> "free"])

findUserById(u, id) == u[id]

-----------------------------------------------------------------------------
(* src/app: the next route handlers.  A handler that awaits two database     *)
(* statements is two actions: the first leaves the request in inflight with  *)
(* what it read, the second resumes it.                                      *)

Suspend(r) == inflight' = inflight (+) SetToBag({r})
Resume(r) == inflight' = inflight (-) SetToBag({r})
Pending(op) == {r \in BagToSet(inflight) : r.op = op}

\* GET /r/[code] up to the end of "await findByCode(params.code)"; a request
\* that finds nothing redirects to / at once
GET_r_findByCode(code, providedPw, cap) ==
    /\ deployment = "next"
    /\ LET found == findByCode(qr_codes, code)
       IN  IF found = NULL
           THEN /\ resp' = Response("resolve", Some(code), 307, "", Some(LocalUrl("/")), NULL)
                /\ UNCHANGED inflight
           ELSE /\ BagCardinality(inflight) < cap
                /\ Suspend([op |-> "resolve", code |-> code, pw |-> providedPw, qr |-> Val(found)])
                /\ UNCHANGED resp
    /\ UNCHANGED <<deployment, users, qr_codes, now>>

\* GET_r_incrementScan writing back the fetched count plus one (read, then write)
GET_r_incrementScan_readThenWrite(r) ==
    /\ deployment = "next"
    /\ r \in Pending("resolve")
    /\ Resume(r)
    /\ IF Expired(r.qr, now)
       THEN /\ resp' = Response("resolve", Some(r.code), 410, "This QR code has expired", NULL, NULL)
            /\ UNCHANGED qr_codes
       ELSE IF PasswordDenied(r.qr, r.pw)
       THEN /\ resp' = Response("resolve", Some(r.code), 307, "", Some(LocalUrl("/password/" \o r.code)), NULL)
            /\ UNCHANGED qr_codes
       ELSE /\ qr_codes' = [i \in DOMAIN qr_codes |->
                                IF qr_codes[i].short_code = r.code
                                THEN [qr_codes[i] EXCEPT !.scan_count = r.qr.scan_count + 1]
                                ELSE qr_codes[i]]
            /\ resp' = Response("resolve", Some(r.code), 302, "", Some(r.qr.destination_url), NULL)
    /\ UNCHANGED <<deployment, users, now>>

\* GET /r/[code] from the expiration check to the response
GET_r_incrementScan(r) ==
    /\ deployment = "next"
    /\ r \in Pending("resolve")
    /\ Resume(r)
    /\ IF Expired(r.qr, now)
       THEN /\ resp' = Response("resolve", Some(r.code), 410, "This QR code has expired", NULL, NULL)
            /\ UNCHANGED qr_codes
       ELSE IF PasswordDenied(r.qr, r.pw)
       THEN /\ resp' = Response("resolve", Some(r.code), 307, "", Some(LocalUrl("/password/" \o r.code)), NULL)
            /\ UNCHANGED qr_codes
       ELSE /\ \A i \in DOMAIN qr_codes :
                    qr_codes[i].short_code = r.code => qr_codes[i].scan_count < MaxScans
            /\ qr_codes' = incrementScan(qr_codes, r.code)
            /\ resp' = Response("resolve", Some(r.code), 302, "", Some(r.qr.destination_url), NULL)
    /\ UNCHANGED <<deployment, users, now>>

\* POST /api/qr up to the end of "await countUserQRs(userId)"; an anonymous
\* request goes on to createQR at once
POST_api_qr(header, url, expiresAt, password, shortCode, cap) ==
    /\ deployment = "next"
    /\ LET userId == getAuthUser(header)
       IN  IF CreateValidation(url) # NULL
           THEN /\ resp' = Response("create", NULL, 400, Val(CreateValidation(url)), NULL, NULL)
                /\ UNCHANGED <<qr_codes, inflight>>
           ELSE IF userId # NULL
           THEN /\ BagCardinality(inflight) < cap
                /\ Suspend([op |-> "create", userId |-> Val(userId), url |-> url,
                            expiresAt |-> expiresAt, password |-> password,
                            plan |-> findUserById(users, Val(userId)).plan,
                            count |-> countUserQRs(qr_codes, Val(userId))])
                /\ UNCHANGED <<qr_codes, resp>>
           ELSE IF UniqueViolation(qr_codes, shortCode)
           THEN /\ resp' = Response("create", NULL, 500, "Failed to create QR code", NULL, NULL)
                /\ UNCHANGED <<qr_codes, inflight>>
           ELSE /\ qr_codes' = createQR(qr_codes, shortCode, url, NULL,
                                        OrNull(expiresAt), HashOrNull(password), now)
                /\ resp' = Response("create", Some(shortCode), 201, "created", NULL,
                                    Some([destinationUrl |-> url]))
                /\ UNCHANGED inflight
    /\ UNCHANGED <<deployment, users, now>>

\* POST /api/qr of an authenticated caller, from the limit check to the response
POST_api_qr_createQR(r, shortCode) ==
    /\ deployment = "next"
    /\ r \in Pending("create")
    /\ Resume(r)
    /\ IF r.count >= LimitOf(r.plan)
       THEN /\ resp' = Response("create", NULL, 403, "plan limit reached", NULL,
                                Some([upgrade |-> TRUE]))
            /\ UNCHANGED qr_codes
       ELSE IF UniqueViolation(qr_codes, shortCode)
       THEN /\ resp' = Response("create", NULL, 500, "Failed to create QR code", NULL, NULL)
            /\ UNCHANGED qr_codes
       ELSE /\ qr_codes' = createQR(qr_codes, shortCode, r.url, Some(r.userId),
                                    OrNull(r.expiresAt), HashOrNull(r.password), now)
            /\ resp' = Response("create", Some(shortCode), 201, "created", NULL,
                                Some([destinationUrl |-> r.url]))
    /\ UNCHANGED <<deployment, users, now>>

\* GET /api/qr/[code]
GET_api_qr_code(code) ==
    /\ deployment = "next"
    /\ LET stats == getStats(qr_codes, code)
       IN  resp' = IF stats = NULL
                   THEN Response("stats", Some(code), 404, "QR code not found", NULL, NULL)
                   ELSE Response("stats", Some(code), 200, "", NULL, stats)
    /\ UNCHANGED <<deployment, users, qr_codes, now, inflight>>

\* GET /api/qr
GET_api_qr(header) ==
    /\ deployment = "next"
    /\ LET userId == getAuthUser(header)
       IN  resp' = IF userId = NULL
                   THEN Response("list", NULL, 401, "Authentication required", NULL, NULL)
                   ELSE Response("list", NULL, 200, "", NULL,
                            Some(Usage(countUserQRs(qr_codes, Val(userId)),
                                       findUserById(users, Val(userId)).plan,
                                       getUserQRs(qr_codes, Val(userId)))))
    /\ UNCHANGED <<deployment, users, qr_codes, now, inflight>>

PUT_api_qr_code(header, code, url) ==
    /\ deployment = "next"
    /\ LET userId == getAuthUser(header)
       IN  IF userId = NULL
           THEN /\ resp' = Response("update", Some(code), 401, "Authentication required", NULL, NULL)
                /\ UNCHANGED qr_codes
           ELSE IF Falsy(url)
           THEN /\ resp' = Response("update", Some(code), 400, "New URL is required", NULL, NULL)
                /\ UNCHANGED qr_codes
           ELSE IF URLParse(url) = NULL
           THEN /\ resp' = Response("update", Some(code), 400, "Invalid URL format", NULL, NULL)
                /\ UNCHANGED qr_codes
           ELSE /\ qr_codes' = updateDestination(qr_codes, url, code, Val(userId))
                /\ resp' = IF Changes(qr_codes, code, Val(userId)) = 0
                            THEN Response("update", Some(code), 404,
                                          "QR code not found or not owned by you", NULL, NULL)
                            ELSE Response("update", Some(code), 200, "Destination updated",
                                          NULL, Some([newUrl |-> url]))
    /\ UNCHANGED <<deployment, users, now, inflight>>

DELETE_api_qr_code(header, code) ==
    /\ deployment = "next"
    /\ LET userId == getAuthUser(header)
       IN  IF userId = NULL
           THEN /\ resp' = Response("deactivate", Some(code), 401, "Authentication required", NULL, NULL)
                /\ UNCHANGED qr_codes
           ELSE /\ qr_codes' = deleteQR(qr_codes, code, Val(userId))
                /\ resp' = IF Changes(qr_codes, code, Val(userId)) = 0
                            THEN Response("deactivate", Some(code), 404,
                                          "QR code not found or not owned by you", NULL, NULL)
                            ELSE Response("deactivate", Some(code), 200, "QR code deactivated",
                                          NULL, NULL)
    /\ UNCHANGED <<deployment, users, now, inflight>>

\* POST /api/auth/signup up to the end of "await findUserByEmail(email)"
POST_api_auth_signup(email, password, cap) ==
    /\ deployment = "next"
    /\ IF email = "" \/ password = ""
       THEN /\ resp' = Response("signup", NULL, 400, "Email and password are required", NULL, NULL)
            /\ UNCHANGED inflight
       ELSE IF Len(password) < 6
       THEN /\ resp' = Response("signup", NULL, 400, "Password must be at least 6 characters", NULL, NULL)
            /\ UNCHANGED inflight
       ELSE IF findUserByEmail(users, email) # NULL
       THEN /\ resp' = Response("signup", NULL, 409, "Email already registered", NULL, NULL)
            /\ UNCHANGED inflight
       ELSE /\ BagCardinality(inflight) < cap
            /\ Suspend([op |-> "signup", email |-> email, password |-> password])
            /\ UNCHANGED resp
    /\ UNCHANGED <<deployment, users, qr_codes, now>>

\* POST /api/auth/signup from "await createUser(...)": email TEXT UNIQUE NOT
\* NULL makes the insert throw on a duplicate, which the catch answers with 500
POST_api_auth_signup_createUser(r) ==
    /\ deployment = "next"
    /\ r \in Pending("signup")
    /\ Resume(r)
    /\ IF findUserByEmail(users, r.email) # NULL
       THEN /\ resp' = Response("signup", NULL, 500, "Failed to create account", NULL, NULL)
            /\ UNCHANGED users
       ELSE /\ users' = createUser(users, r.email, hashSync(r.password))
            /\ resp' = Response("signup", NULL, 201, "Account created", NULL,
                                Some([id |-> Len(users) + 1, email |-> r.email, plan |-> "free"]))
    /\ UNCHANGED <<deployment, qr_codes, now>>

-----------------------------------------------------------------------------
(* Storage errors in the redirect handlers: a database call that throws (or   *)
(* whose promise rejects) has written nothing and lands in the handler's      *)
(* catch, which answers 500 { error: 'Server error' }.                        *)

StorageCalls == {"findByCode", "incrementScan"}

\* GET /r/:code in which the statement failing throws; incrementScan is only
\* reached past the not-found, expiry and password returns
app_get_r_catch(code, providedPw, failing) ==
    /\ deployment = "express"
    /\ failing = "incrementScan" =>
            LET found == stmts_findByCode(qr_codes, code)
            IN  /\ found # NULL
                /\ ~Expired(Val(found), now)
                /\ ~PasswordDenied(Val(found), providedPw)
    /\ resp' = Response("resolve", Some(code), 500, "Server error", NULL, NULL)
    /\ UNCHANGED <<deployment, users, qr_codes, now, inflight>>

\* a catch that redirects to / as for a code that is not found
GET_r_findByCode_catch_asNotFound(code, providedPw) ==
    /\ deployment = "next"
    /\ resp' = Response("resolve", Some(code), 307, "", Some(LocalUrl("/")), NULL)
    /\ UNCHANGED <<deployment, users, qr_codes, now, inflight>>

\* GET /r/[code] in which "await findByCode(params.code)" rejects
GET_r_findByCode_catch(code, providedPw) ==
    /\ deployment = "next"
    /\ resp' = Response("resolve", Some(code), 500, "Server error", NULL, NULL)
    /\ UNCHANGED <<deployment, users, qr_codes, now, inflight>>

\* GET /r/[code] in which "await incrementScan(params.code)" rejects
GET_r_incrementScan_catch(r) ==
    /\ deployment = "next"
    /\ r \in Pending("resolve")
    /\ ~Expired(r.qr, now)
    /\ ~PasswordDenied(r.qr, r.pw)
    /\ Resume(r)
    /\ resp' = Response("resolve", Some(r.code), 500, "Server error", NULL, NULL)
    /\ UNCHANGED <<deployment, users, qr_codes, now>>

-----------------------------------------------------------------------------
(* Requests *)

\* An account as signup leaves it, and with the plan billing has set
Account(email, plan) == [email |-> email, password |-> hashSync("hunter22"), plan |-> plan]

\* The Authorization header with the token issued to account id, and one
\* whose token does not verify (forged or expired)
Bearer(id) == Some(Token(id, TRUE))
BadBearer == Some(Token(1, FALSE))

\* The registry handlers of both deployments (create, stats, listing, update
\* destination, deactivate) over the request values in; at most in.inflight
\* requests are suspended at a time
Registry(in) ==
    \/ \E h \in in.creators, u \in in.createUrls, e \in in.expiresAts, p \in in.qrPasswords,
          c \in in.codes : app_post_api_qr(h, u, e, p, c)
    \/ \E c \in in.codes : app_get_api_qr_stats(c)
    \/ \E h \in in.callers : app_get_api_qr_my(h)
    \/ \E h \in in.callers, c \in in.codes, u \in in.updateUrls : app_put_api_qr(h, c, u)
    \/ \E h \in in.callers, c \in in.codes : app_delete_api_qr(h, c)
    \/ \E h \in in.creators, u \in in.createUrls, e \in in.expiresAts, p \in in.qrPasswords,
          c \in in.codes : POST_api_qr(h, u, e, p, c, in.inflight)
    \/ \E r \in BagToSet(inflight), c \in in.codes : POST_api_qr_createQR(r, c)
    \/ \E c \in in.codes : GET_api_qr_code(c)
    \/ \E h \in in.callers : GET_api_qr(h)
    \/ \E h \in in.callers, c \in in.codes, u \in in.updateUrls : PUT_api_qr_code(h, c, u)
    \/ \E h \in in.callers, c \in in.codes : DELETE_api_qr_code(h, c)

\* The redirect handler of both deployments
Resolver(in) ==
    \/ \E c \in in.codes, p \in in.providedPws : app_get_r(c, p)
    \/ \E c \in in.codes, p \in in.providedPws : GET_r_findByCode(c, p, in.inflight)
    \/ \E r \in BagToSet(inflight) : GET_r_incrementScan(r)

\* The redirect handler of both deployments when a database call fails
ResolverFaults(in) ==
    \/ \E c \in in.codes, p \in in.providedPws, f \in StorageCalls : app_get_r_catch(c, p, f)
    \/ \E c \in in.codes, p \in in.providedPws : GET_r_findByCode_catch(c, p)
    \/ \E r \in BagToSet(inflight) : GET_r_incrementScan_catch(r)

\* Spec: one code with every expiration and password state, created and
\* managed by account 1 and scanned with every credential, under a clock
CoreRequests ==
    [codes |-> {"c1"},
     creators |-> {Bearer(1)},
     callers |-> {Bearer(1)},
     createUrls |-> {MenuUrl},
     updateUrls |-> {NewMenuUrl},
     expiresAts |-> {NULL, Some("1970-01-01T00:00:00Z")},
     qrPasswords |-> {NULL, Some("secret123")},
     providedPws |-> {NULL, Some("wrong"), Some("secret123")},
     inflight |-> MaxInflight]

Init == InitWith(<<Account("a@x.io", "free"), Account("b@x.io", "free")>>)

Next == Registry(CoreRequests) \/ Resolver(CoreRequests) \/ Tick

Spec == Init /\ [][Next]_vars

\* SpecOwner: one code, created anonymously or by account 1 or 2 and called on
\* by both accounts, with an invalid token and without a token
OwnerRequests ==
    [codes |-> {"c1"},
     creators |-> {NULL, BadBearer, Bearer(1), Bearer(2)},
     callers |-> {NULL, BadBearer, Bearer(1), Bearer(2)},
     createUrls |-> {MenuUrl},
     updateUrls |-> {NewMenuUrl},
     expiresAts |-> {NULL},
     qrPasswords |-> {NULL},
     providedPws |-> {NULL},
     inflight |-> MaxInflight]

NextOwner == Registry(OwnerRequests) \/ Resolver(OwnerRequests)

SpecOwner == Init /\ [][NextOwner]_vars

\* SpecRace: concurrent requests on one code owned by account 1
RaceRequests ==
    [codes |-> {"c1"},
     creators |-> {Bearer(1)},
     callers |-> {Bearer(1)},
     createUrls |-> {MenuUrl},
     updateUrls |-> {NewMenuUrl},
     expiresAts |-> {NULL},
     qrPasswords |-> {NULL},
     providedPws |-> {NULL},
     inflight |-> MaxRacing]

InitRace == InitWith(<<Account("a@x.io", "free")>>)

NextRace == Registry(RaceRequests) \/ Resolver(RaceRequests)

SpecRace == InitRace /\ [][NextRace]_vars

\* SpecQuota: three codes, created anonymously, by the free account 1 or by
\* the business account 2
QuotaRequests ==
    [codes |-> {"c1", "c2", "c3"},
     creators |-> {NULL, Bearer(1), Bearer(2)},
     callers |-> {Bearer(1)},
     createUrls |-> {MenuUrl},
     updateUrls |-> {MenuUrl},
     expiresAts |-> {NULL},
     qrPasswords |-> {NULL},
     inflight |-> MaxInflight]

InitQuota == InitWith(<<Account("a@x.io", "free"), Account("b@x.io", "business")>>)

NextQuota == Registry(QuotaRequests)

SpecQuota == InitQuota /\ [][NextQuota]_vars

\* SpecCreateRace: concurrent creates of the free account 1 over three codes
CreateRaceRequests ==
    [codes |-> {"c1", "c2", "c3"},
     creators |-> {Bearer(1)},
     callers |-> {Bearer(1)},
     createUrls |-> {MenuUrl},
     updateUrls |-> {MenuUrl},
     expiresAts |-> {NULL},
     qrPasswords |-> {NULL},
     inflight |-> MaxRacing]

NextCreateRace == Registry(CreateRaceRequests)

SpecCreateRace == InitRace /\ [][NextCreateRace]_vars

\* SpecValidate: creates and updates with every kind of url value, by the
\* free account 1 and anonymously, over two codes
ValidateRequests ==
    [codes |-> {"c1", "c2"},
     creators |-> {NULL, Bearer(1)},
     callers |-> {Bearer(1)},
     createUrls |-> {NoUrl, NumberUrl, EmptyUrl, RelativeUrl, MenuUrl, FtpUrl, LongUrl},
     updateUrls |-> {NoUrl, RelativeUrl, FtpUrl, LongUrl},
     expiresAts |-> {NULL},
     qrPasswords |-> {NULL},
     inflight |-> MaxInflight]

NextValidate == Registry(ValidateRequests)

SpecValidate == Init /\ [][NextValidate]_vars

\* SpecFault: one code of account 1, with and without a password, scanned
\* while database calls of the redirect handler may fail
FaultRequests ==
    [codes |-> {"c1"},
     creators |-> {Bearer(1)},
     callers |-> {Bearer(1)},
     createUrls |-> {MenuUrl},
     updateUrls |-> {NewMenuUrl},
     expiresAts |-> {NULL},
     qrPasswords |-> {NULL, Some("secret123")},
     providedPws |-> {NULL, Some("secret123")},
     inflight |-> MaxInflight]

NextFault == Registry(FaultRequests) \/ Resolver(FaultRequests) \/ ResolverFaults(FaultRequests)

SpecFault == InitRace /\ [][NextFault]_vars

-----------------------------------------------------------------------------
(* What the claims speak of *)

\* The resolver's decision a response to a redirect request stands for
Decision(r) ==
    IF r.op # "resolve" THEN "NONE"
    ELSE CASE r.status = 302 -> "ALLOWED"
           [] r.status = 410 -> "EXPIRED"
           [] r.status = 200 /\ r.body = "password.html" -> "PASSWORD_REQUIRED"
           [] r.status = 307 /\ r.location = Some(LocalUrl("/password/" \o Val(r.code)))
                -> "PASSWORD_REQUIRED"
           [] r.status = 404 /\ r.body = "index.html" -> "NOT_FOUND"
           [] r.status = 307 /\ r.location = Some(LocalUrl("/")) -> "NOT_FOUND"
           [] OTHER -> "NONE"

\* The record with this code: its row, or NULL
Record(code) ==
    IF HasCode(qr_codes, code)
    THEN Some(qr_codes[CHOOSE i \in DOMAIN qr_codes : qr_codes[i].short_code = code])
    ELSE NULL

\* The active record with this code, or NULL
ActiveRecord(code) ==
    IF Record(code) # NULL /\ Val(Record(code)).is_active = 1 THEN Record(code) ELSE NULL

\* The decision the resolver contract gives on a looked-up record (NULL when
\* there is no active one) at time ts for a supplied credential
Contract(record, ts, credential) ==
    IF record = NULL THEN "NOT_FOUND"
    ELSE IF /\ Val(record).expires_at # NULL
            /\ DateOf(Val(Val(record).expires_at)) # NULL
            /\ Val(DateOf(Val(Val(record).expires_at))) < ts
         THEN "EXPIRED"
    ELSE IF /\ Val(record).password # NULL
            /\ (credential = NULL \/ hashSync(Val(credential)) # Val(Val(record).password))
         THEN "PASSWORD_REQUIRED"
    ELSE "ALLOWED"

\* C1: a redirect request is answered with NOT_FOUND when no active record has
\* the code, else EXPIRED when expires_at is set and past, else
\* PASSWORD_REQUIRED when a password hash is stored and the credential is
\* absent or does not verify, else ALLOWED with the stored destination; in the
\* next deployment the record is the one the lookup fetched.
C1_ResolveOrder ==
    [][ /\ \A c \in CoreRequests.codes, p \in CoreRequests.providedPws :
            app_get_r(c, p) =>
                /\ Decision(resp') = Contract(ActiveRecord(c), now, p)
                /\ Decision(resp') = "ALLOWED" =>
                        resp'.location = Some(Val(ActiveRecord(c)).destination_url)
        /\ \A c \in CoreRequests.codes, p \in CoreRequests.providedPws :
            GET_r_findByCode(c, p, CoreRequests.inflight) =>
                IF ActiveRecord(c) = NULL
                THEN Decision(resp') = "NOT_FOUND" /\ inflight' = inflight
                ELSE inflight' = inflight (+) SetToBag({[op |-> "resolve", code |-> c,
                                                         pw |-> p, qr |-> Val(ActiveRecord(c))]})
        /\ \A r \in Pending("resolve") :
            GET_r_incrementScan(r) =>
                /\ Decision(resp') = Contract(Some(r.qr), now, r.pw)
                /\ Decision(resp') # "NOT_FOUND"
                /\ Decision(resp') = "ALLOWED" => resp'.location = Some(r.qr.destination_url)
      ]_vars

\* C1 witness: a password-protected record has just resolved to ALLOWED
C1_Witness ==
    /\ Decision(resp) = "ALLOWED"
    /\ Record(Val(resp.code)) # NULL
    /\ Val(Record(Val(resp.code))).password # NULL
    /\ Val(Record(Val(resp.code))).expires_at # NULL

\* a step in which a redirect request for code is answered
ResolveStep(in, code) ==
    \/ \E p \in in.providedPws : app_get_r(code, p)
    \/ \E r \in Pending("resolve") : r.code = code /\ GET_r_incrementScan(r)

\* C2: scan_count starts at 0, never decreases, and changes only in a step
\* that answers a redirect request for that code with ALLOWED; a step that
\* answers NOT_FOUND, EXPIRED or PASSWORD_REQUIRED changes no scan_count.
C2_ScanCountOnlyByAllowed ==
    [][ /\ \A i \in DOMAIN qr_codes :
            /\ i \in DOMAIN qr_codes'
            /\ qr_codes'[i].scan_count >= qr_codes[i].scan_count
            /\ qr_codes'[i].scan_count # qr_codes[i].scan_count =>
                /\ ResolveStep(CoreRequests, qr_codes[i].short_code)
                /\ Decision(resp') = "ALLOWED"
                /\ resp'.code = Some(qr_codes[i].short_code)
        /\ \A i \in DOMAIN qr_codes' \ DOMAIN qr_codes : qr_codes'[i].scan_count = 0
        /\ \A c \in CoreRequests.codes :
            ResolveStep(CoreRequests, c)
              /\ Decision(resp') \in {"NOT_FOUND", "EXPIRED", "PASSWORD_REQUIRED"}
            => \A i \in DOMAIN qr_codes : qr_codes'[i].scan_count = qr_codes[i].scan_count
      ]_vars

\* C2 witness: a wrong-password attempt on an expired, password-protected
\* record that was scanned before is answered EXPIRED
C2_Witness ==
    /\ Decision(resp) = "EXPIRED"
    /\ Val(Record(Val(resp.code))).password # NULL
    /\ Val(Record(Val(resp.code))).scan_count > 0

\* C3: every step that answers ALLOWED adds exactly one to the record's
\* scan_count as it stands at that step, whatever was fetched before, and no
\* other step changes it: N ALLOWED answers leave the count N higher.
C3_NoLostScan ==
    [][ \A i \in DOMAIN qr_codes :
            qr_codes'[i].scan_count =
                qr_codes[i].scan_count
                  + (IF ResolveStep(RaceRequests, qr_codes[i].short_code)
                        /\ Decision(resp') = "ALLOWED"
                     THEN 1 ELSE 0)
      ]_vars

\* C3 witness: of two overlapping redirect requests that both fetched
\* scan_count 0, one has been answered ALLOWED and counted, the other is
\* still suspended before its increment
C3_Witness ==
    /\ deployment = "next"
    /\ Decision(resp) = "ALLOWED"
    /\ Val(Record(Val(resp.code))).scan_count = 1
    /\ \E r \in Pending("resolve") : r.code = Val(resp.code) /\ r.qr.scan_count = 0

\* C4: an inactive record never becomes active again, and a redirect request
\* that starts while the record is inactive is answered NOT_FOUND and changes
\* nothing, whatever its expiration, password and supplied credential.
C4_DeactivationFinal ==
    [][ /\ \A i \in DOMAIN qr_codes :
            qr_codes[i].is_active = 0 => qr_codes'[i].is_active = 0
        /\ \A c \in CoreRequests.codes, p \in CoreRequests.providedPws :
            Record(c) # NULL /\ ActiveRecord(c) = NULL =>
                /\ app_get_r(c, p) => Decision(resp') = "NOT_FOUND" /\ qr_codes' = qr_codes
                /\ GET_r_findByCode(c, p, CoreRequests.inflight) =>
                        Decision(resp') = "NOT_FOUND" /\ inflight' = inflight
      ]_vars

\* C4 witness: a deactivated, password-protected, unexpired record has just
\* been answered NOT_FOUND
C4_Witness ==
    /\ Decision(resp) = "NOT_FOUND"
    /\ Record(Val(resp.code)) # NULL
    /\ Val(Record(Val(resp.code))).is_active = 0
    /\ Val(Record(Val(resp.code))).password # NULL
    /\ Val(Record(Val(resp.code))).expires_at = NULL

\* C5 (as claimed): no step changes the scan_count or last_scanned_at of a
\* record whose is_active is 0.
C5_IncrementSkipsInactive ==
    [][ \A i \in DOMAIN qr_codes :
            qr_codes[i].is_active = 0 =>
                /\ qr_codes'[i].scan_count = qr_codes[i].scan_count
                /\ qr_codes'[i].last_scanned_at = qr_codes[i].last_scanned_at
      ]_vars

\* C6: no two records, active or not, carry the same code, and a step that
\* adds a record answers 201 with a code no record carried before and leaves
\* the existing records as they were.
C6_CodesNeverRecycled ==
    [][ /\ \A i, j \in DOMAIN qr_codes' :
            i # j => qr_codes'[i].short_code # qr_codes'[j].short_code
        /\ qr_codes' # qr_codes /\ resp'.op = "create" =>
            /\ resp'.status = 201
            /\ ~HasCode(qr_codes, Val(resp'.code))
            /\ Len(qr_codes') = Len(qr_codes) + 1
            /\ qr_codes'[Len(qr_codes')].short_code = Val(resp'.code)
            /\ \A i \in DOMAIN qr_codes : qr_codes'[i] = qr_codes[i]
      ]_vars

\* C6 witness: with one record, deactivated, a create that drew its code has
\* been refused
C6_Witness ==
    /\ Len(qr_codes) = 1
    /\ qr_codes[1].is_active = 0
    /\ resp.op = "create"
    /\ resp.status = 500

\* C7: an update-destination or deactivate by an authenticated caller who is
\* not the owner of the record is answered 404 (not changed) and changes no
\* field of any record.
C7_OwnershipIsolation ==
    [][ \A h \in OwnerRequests.callers, c \in OwnerRequests.codes :
            /\ getAuthUser(h) # NULL
            /\ Record(c) # NULL
            /\ Val(Record(c)).user_id # NULL
            /\ Val(Record(c)).user_id # getAuthUser(h)
            => /\ \A u \in OwnerRequests.updateUrls :
                    app_put_api_qr(h, c, u) \/ PUT_api_qr_code(h, c, u) =>
                        resp'.status = 404 /\ qr_codes' = qr_codes
               /\ app_delete_api_qr(h, c) \/ DELETE_api_qr_code(h, c) =>
                        resp'.status = 404 /\ qr_codes' = qr_codes
      ]_vars

\* C7 witness: an update of an active record owned by account 1 has been
\* answered 404
C7_Witness ==
    /\ resp.op = "update"
    /\ resp.status = 404
    /\ ActiveRecord(Val(resp.code)) # NULL
    /\ Val(ActiveRecord(Val(resp.code))).user_id = Some(1)

\* C8: a record with user_id NULL keeps its destination and stays active in
\* every step.
C8_AnonymousImmutable ==
    [][ \A i \in DOMAIN qr_codes :
            qr_codes[i].user_id = NULL =>
                /\ qr_codes'[i].user_id = NULL
                /\ qr_codes'[i].destination_url = qr_codes[i].destination_url
                /\ qr_codes[i].is_active = 1
                /\ qr_codes'[i].is_active = 1
      ]_vars

\* C8 witness: an authenticated deactivate of an anonymous record has been
\* answered 404
C8_Witness ==
    /\ resp.op = "deactivate"
    /\ resp.status = 404
    /\ Record(Val(resp.code)) # NULL
    /\ Val(Record(Val(resp.code))).user_id = NULL

\* C9 (as claimed): an update-destination on a record whose is_active is 0 is
\* not answered "updated" and leaves the destination as it was.
C9_UpdateNeedsActive ==
    [][ \A h \in OwnerRequests.callers, c \in OwnerRequests.codes, u \in OwnerRequests.updateUrls :
            Record(c) # NULL /\ Val(Record(c)).is_active = 0
            /\ (app_put_api_qr(h, c, u) \/ PUT_api_qr_code(h, c, u))
            => resp'.status # 200 /\ qr_codes' = qr_codes
      ]_vars

\* the number of active records the account owns
ActiveOwnedBy(userId) ==
    Cardinality({i \in DOMAIN qr_codes :
        qr_codes[i].user_id = Some(userId) /\ qr_codes[i].is_active = 1})

\* the plan limits the quota policy states; unlimited is NULL
PlanLimit(plan) ==
    CASE plan = "free" -> Some(2) [] plan = "pro" -> Some(50) [] plan = "business" -> NULL

AtLimit(count, plan) == PlanLimit(plan) # NULL /\ count >= Val(PlanLimit(plan))

\* C10 (as claimed): an authenticated create with a valid destination is
\* answered 403 with the upgrade hint exactly when the caller's active records
\* number at least the plan's limit, and then adds no record; in the next
\* deployment the count is the one the request read.
C10_QuotaCountsActive ==
    [][ /\ \A h \in QuotaRequests.creators, u \in QuotaRequests.createUrls,
              e \in QuotaRequests.expiresAts, p \in QuotaRequests.qrPasswords,
              c \in QuotaRequests.codes :
            getAuthUser(h) # NULL /\ app_post_api_qr(h, u, e, p, c) =>
                /\ resp'.status = 403 /\ resp'.data = Some([upgrade |-> TRUE])
                   <=> AtLimit(ActiveOwnedBy(Val(getAuthUser(h))),
                               users[Val(getAuthUser(h))].plan)
                /\ resp'.status = 403 => qr_codes' = qr_codes
        /\ \A h \in QuotaRequests.creators, u \in QuotaRequests.createUrls,
              e \in QuotaRequests.expiresAts, p \in QuotaRequests.qrPasswords,
              c \in QuotaRequests.codes :
            getAuthUser(h) # NULL /\ POST_api_qr(h, u, e, p, c, QuotaRequests.inflight) =>
                \E r \in BagToSet(inflight') :
                    /\ inflight' = inflight (+) SetToBag({r})
                    /\ r.count = ActiveOwnedBy(Val(getAuthUser(h)))
        /\ \A r \in Pending("create"), c \in QuotaRequests.codes :
            POST_api_qr_createQR(r, c) =>
                /\ resp'.status = 403 /\ resp'.data = Some([upgrade |-> TRUE])
                   <=> AtLimit(r.count, users[r.userId].plan)
                /\ resp'.status = 403 => qr_codes' = qr_codes
      ]_vars

\* C11 (as claimed): no account with a finite plan limit owns more active
\* records than the limit.
C11_ActiveWithinLimit ==
    \A id \in DOMAIN users :
        PlanLimit(users[id].plan) # NULL =>
            ActiveOwnedBy(id) <= Val(PlanLimit(users[id].plan))

\* C12: a create without an Authorization header and with a valid destination
\* is answered at once and never with 403; the record it adds has user_id NULL
\* and changes no account's count, neither of active records nor as the
\* quota check counts.
C12_AnonymousExempt ==
    [][ \A u \in QuotaRequests.createUrls, e \in QuotaRequests.expiresAts,
           p \in QuotaRequests.qrPasswords, c \in QuotaRequests.codes :
            /\ CreateValidation(u) = NULL
            /\ app_post_api_qr(NULL, u, e, p, c) \/ POST_api_qr(NULL, u, e, p, c, QuotaRequests.inflight)
            => /\ resp'.op = "create"
               /\ resp'.status # 403
               /\ resp'.data # Some([upgrade |-> TRUE])
               /\ inflight' = inflight
               /\ resp'.status = 201 =>
                    /\ Len(qr_codes') = Len(qr_codes) + 1
                    /\ qr_codes'[Len(qr_codes')].user_id = NULL
               /\ \A id \in DOMAIN users :
                    /\ ActiveOwnedBy(id)' = ActiveOwnedBy(id)
                    /\ stmts_countUserQRs(qr_codes', id) = stmts_countUserQRs(qr_codes, id)
                    /\ countUserQRs(qr_codes', id) = countUserQRs(qr_codes, id)
      ]_vars

\* C12 witness: a third anonymous record has just been created
C12_Witness ==
    /\ resp.op = "create"
    /\ resp.status = 201
    /\ Len(qr_codes) = 3
    /\ \A i \in DOMAIN qr_codes : qr_codes[i].user_id = NULL

\* C13 (as claimed): a create whose generated code collides with an existing
\* record's code is not answered with the create failure on that first
\* collision.
C13_CollisionRetried ==
    [][ \A h \in QuotaRequests.creators, u \in QuotaRequests.createUrls,
           e \in QuotaRequests.expiresAts, p \in QuotaRequests.qrPasswords,
           c \in QuotaRequests.codes :
            /\ HasCode(qr_codes, c)
            /\ Codes \ {qr_codes[i].short_code : i \in DOMAIN qr_codes} # {}
            => /\ app_post_api_qr(h, u, e, p, c) => resp'.status # 500
               /\ POST_api_qr(h, u, e, p, c, QuotaRequests.inflight) => resp'.status # 500
               /\ \A r \in Pending("create") : POST_api_qr_createQR(r, c) => resp'.status # 500
      ]_vars

\* a destination that is an absolute http or https URL of at most 2048 characters
ValidDestination(url) ==
    /\ url.type = "string"
    /\ url.scheme \in {"http", "https"}
    /\ url.length <= 2048

\* C14: a create whose destination is missing, not a string, not parseable as
\* a URL, of a scheme other than http or https, or longer than 2048 characters
\* is answered 400 at once, whatever the caller's count, and changes no record.
C14_CreateValidation ==
    [][ \A h \in ValidateRequests.creators, u \in ValidateRequests.createUrls,
           e \in ValidateRequests.expiresAts, p \in ValidateRequests.qrPasswords,
           c \in ValidateRequests.codes :
            /\ ~ValidDestination(u)
            /\ app_post_api_qr(h, u, e, p, c) \/ POST_api_qr(h, u, e, p, c, ValidateRequests.inflight)
            => /\ resp'.op = "create"
               /\ resp'.status = 400
               /\ qr_codes' = qr_codes
               /\ inflight' = inflight
      ]_vars

\* C14 witness: with account 1 at the limit of its plan, a create has been
\* refused for the length of its destination
C14_Witness ==
    /\ resp.op = "create"
    /\ resp.status = 400
    /\ resp.body = "URL too long"
    /\ ActiveOwnedBy(1) = 2

\* C15 (as claimed): the destination of every record is an absolute http or
\* https URL of at most 2048 characters.
C15_DestinationValid ==
    \A i \in DOMAIN qr_codes : ValidDestination(qr_codes[i].destination_url)

\* C16 (as claimed): a step that answers ALLOWED leaves the record's
\* last_scanned_at at the time of the step, and last_scanned_at is unset
\* exactly when scan_count is 0.
C16_LastScannedAtSet ==
    [][ \A i \in DOMAIN qr_codes :
            /\ ResolveStep(CoreRequests, qr_codes[i].short_code) /\ Decision(resp') = "ALLOWED"
                => qr_codes'[i].last_scanned_at = Some(now)
            /\ qr_codes'[i].last_scanned_at = NULL <=> qr_codes'[i].scan_count = 0
      ]_vars

\* C17: on an active, unexpired, password-protected record a redirect request
\* without a credential and one with a wrong credential are the same step:
\* the same password prompt as response and no change to any record.
C17_NoCredentialAsWrong ==
    [][ /\ \A c \in CoreRequests.codes :
            Contract(ActiveRecord(c), now, NULL) = "PASSWORD_REQUIRED" =>
                /\ app_get_r(c, NULL) <=> app_get_r(c, Some("wrong"))
                /\ app_get_r(c, NULL) =>
                        Decision(resp') = "PASSWORD_REQUIRED" /\ qr_codes' = qr_codes
                /\ \A p \in {NULL, Some("wrong")} :
                        GET_r_findByCode(c, p, CoreRequests.inflight) =>
                            resp' = resp /\ qr_codes' = qr_codes
        /\ \A r \in Pending("resolve") :
            /\ r.pw \in {NULL, Some("wrong")}
            /\ Contract(Some(r.qr), now, NULL) = "PASSWORD_REQUIRED"
            /\ GET_r_incrementScan(r)
            => /\ resp' = Response("resolve", Some(r.code), 307, "",
                                   Some(LocalUrl("/password/" \o r.code)), NULL)
               /\ qr_codes' = qr_codes
      ]_vars

\* C17 witness: a request on a password-protected record without expiration
\* has been answered with the password prompt
C17_Witness ==
    /\ Decision(resp) = "PASSWORD_REQUIRED"
    /\ ActiveRecord(Val(resp.code)) # NULL
    /\ Val(ActiveRecord(Val(resp.code))).password # NULL
    /\ Val(ActiveRecord(Val(resp.code))).expires_at = NULL

\* C18: a redirect request for a code that has no record and one for a code
\* whose record is inactive get the same response, which depends on nothing
\* but the code, for every credential, and change nothing.
C18_AbsentAsDeactivated ==
    [][ \A c \in CoreRequests.codes, p \in CoreRequests.providedPws :
            ActiveRecord(c) = NULL =>
                /\ app_get_r(c, p) =>
                    /\ resp' = Response("resolve", Some(c), 404, "index.html", NULL, NULL)
                    /\ qr_codes' = qr_codes
                /\ GET_r_findByCode(c, p, CoreRequests.inflight) =>
                    /\ resp' = Response("resolve", Some(c), 307, "", Some(LocalUrl("/")), NULL)
                    /\ qr_codes' = qr_codes
                    /\ inflight' = inflight
      ]_vars

\* C18 witness: a record that was scanned and then deactivated has been
\* answered like a code never issued
C18_Witness ==
    /\ Decision(resp) = "NOT_FOUND"
    /\ Record(Val(resp.code)) # NULL
    /\ Val(Record(Val(resp.code))).is_active = 0
    /\ Val(Record(Val(resp.code))).scan_count > 0

\* C19: an update-destination or deactivate by an authenticated caller gets
\* the same 404 response, which depends on nothing but the code, when the code
\* has no record and when its record is owned by another account or by nobody.
C19_NoOwnershipOracle ==
    [][ \A h \in OwnerRequests.callers, c \in OwnerRequests.codes :
            /\ getAuthUser(h) # NULL
            /\ Record(c) = NULL \/ Val(Record(c)).user_id # getAuthUser(h)
            => /\ \A u \in OwnerRequests.updateUrls :
                    app_put_api_qr(h, c, u) \/ PUT_api_qr_code(h, c, u) =>
                        /\ resp' = Response("update", Some(c), 404,
                                            "QR code not found or not owned by you", NULL, NULL)
                        /\ qr_codes' = qr_codes
               /\ app_delete_api_qr(h, c) \/ DELETE_api_qr_code(h, c) =>
                        /\ resp' = Response("deactivate", Some(c), 404,
                                            "QR code not found or not owned by you", NULL, NULL)
                        /\ qr_codes' = qr_codes
      ]_vars

\* C19 witness: a deactivate of a code that has no record has been answered 404
C19_Witness ==
    /\ resp.op = "deactivate"
    /\ resp.status = 404
    /\ Record(Val(resp.code)) = NULL

\* a response to a redirect request that is none of NOT_FOUND, EXPIRED,
\* PASSWORD_REQUIRED and the redirect to the destination: a failure status
\* without a Location
ResolutionFailed(r) ==
    /\ r.op = "resolve"
    /\ Decision(r) = "NONE"
    /\ r.status >= 500
    /\ r.location = NULL

\* C20: a redirect request whose lookup or increment fails in the database is
\* answered with a failure status that is none of the four decisions and
\* changes no record; a redirect to the destination is only sent in a step
\* that has counted the scan.
C20_StorageErrorDistinct ==
    [][ /\ \A c \in FaultRequests.codes, p \in FaultRequests.providedPws :
            /\ \A f \in StorageCalls :
                    app_get_r_catch(c, p, f) => ResolutionFailed(resp') /\ qr_codes' = qr_codes
            /\ GET_r_findByCode_catch(c, p) => ResolutionFailed(resp') /\ qr_codes' = qr_codes
        /\ \A r \in Pending("resolve") :
            GET_r_incrementScan_catch(r) => ResolutionFailed(resp') /\ qr_codes' = qr_codes
        /\ \A i \in DOMAIN qr_codes :
            /\ resp' # resp \/ qr_codes' # qr_codes
            /\ Decision(resp') = "ALLOWED"
            /\ resp'.code = Some(qr_codes[i].short_code)
            => qr_codes'[i].scan_count = qr_codes[i].scan_count + 1
      ]_vars

\* C20 witness: a request for an active record without password, not scanned
\* so far, has been answered with the failure
C20_Witness ==
    /\ ResolutionFailed(resp)
    /\ ActiveRecord(Val(resp.code)) # NULL
    /\ Val(ActiveRecord(Val(resp.code))).password = NULL
    /\ Val(ActiveRecord(Val(resp.code))).scan_count = 0

-----------------------------------------------------------------------------
(* Persistence, reads and the fields no operation changes *)

\* a step in which a public stats request for code is answered
StatsStep(code) == app_get_api_qr_stats(code) \/ GET_api_qr_code(code)

\* a step in which the owner listing of the caller is answered
ListStep(header) == app_get_api_qr_my(header) \/ GET_api_qr(header)

\* a step in which a deactivation request of the caller for code is answered
DeactivateStep(header, code) ==
    app_delete_api_qr(header, code) \/ DELETE_api_qr_code(header, code)

\* the columns of a row the public stats are said to show
StatsFields ==
    {"short_code", "destination_url", "scan_count", "created_at",
     "last_scanned_at", "expires_at"}

\* C21 (as claimed): no step removes a row or changes its code, and a stats
\* request for a code that was ever created is answered 200 with the row's
\* code, destination, scan count, creation time, last-scan time and
\* expiration time, whether or not the record is expired or deactivated.
C21_StatsAlwaysComplete ==
    [][ /\ \A i \in DOMAIN qr_codes :
            /\ i \in DOMAIN qr_codes'
            /\ qr_codes'[i].short_code = qr_codes[i].short_code
        /\ \A c \in CoreRequests.codes :
            StatsStep(c) /\ Record(c) # NULL =>
                /\ resp'.status = 200
                /\ resp'.data # NULL
                /\ \A f \in StatsFields :
                    /\ f \in DOMAIN Val(resp'.data)
                    /\ Val(resp'.data)[f] = Val(Record(c))[f]
      ]_vars

\* C22 (as claimed): the listing of an authenticated caller is answered 200
\* with a usage count equal to the number of active records the caller owns
\* and the limit of the caller's plan (none for the unlimited tier), so that
\* the listing shows usage at or above the limit exactly when the plan's
\* quota is used up by the caller's active records.
C22_ListingUsage ==
    [][ \A h \in QuotaRequests.callers :
            ListStep(h) /\ getAuthUser(h) # NULL =>
                LET id == Val(getAuthUser(h))
                    usage == Val(resp'.data)
                IN  /\ resp'.status = 200
                    /\ usage.count = ActiveOwnedBy(id)
                    /\ usage.limit = PlanLimit(users[id].plan)
                    /\ (usage.limit # NULL /\ usage.count >= Val(usage.limit))
                        <=> AtLimit(ActiveOwnedBy(id), users[id].plan)
      ]_vars

\* a step in which the redirect route of the next deployment looks a code up
LookupStep(in, code) ==
    \E p \in in.providedPws : GET_r_findByCode(code, p, in.inflight)

\* a step in which the create route of the next deployment counts the
\* caller's active records
CountStep(in, header) ==
    /\ getAuthUser(header) # NULL
    /\ \E u \in in.createUrls, e \in in.expiresAts, p \in in.qrPasswords, c \in in.codes :
            POST_api_qr(header, u, e, p, c, in.inflight)

\* C23: a step that looks a code up, answers a stats request, answers a
\* listing or counts the caller's active records changes no record and no
\* account, and a step that changes no record leaves the result of every
\* lookup, in both deployments, as it was.
C23_ReadsChangeNothing ==
    [][ /\ \A c \in OwnerRequests.codes :
            StatsStep(c) \/ LookupStep(OwnerRequests, c) =>
                qr_codes' = qr_codes /\ users' = users
        /\ \A h \in OwnerRequests.callers :
            ListStep(h) \/ CountStep(OwnerRequests, h) =>
                qr_codes' = qr_codes /\ users' = users
        /\ qr_codes' = qr_codes =>
            \A c \in OwnerRequests.codes :
                /\ stmts_findByCode(qr_codes', c) = stmts_findByCode(qr_codes, c)
                /\ findByCode(qr_codes', c) = findByCode(qr_codes, c)
                /\ stmts_getStats(qr_codes', c) = stmts_getStats(qr_codes, c)
                /\ getStats(qr_codes', c) = getStats(qr_codes, c)
      ]_vars

\* C23 witness: the stats of a record that was scanned and then deactivated
\* have been read, and the record still has its scan and is inactive
C23_Witness ==
    /\ resp.op = "stats"
    /\ resp.status = 200
    /\ Val(Record(Val(resp.code))).scan_count > 0
    /\ Val(Record(Val(resp.code))).is_active = 0
    /\ Val(resp.data).scan_count = Val(Record(Val(resp.code))).scan_count

\* C24 (as claimed): a deactivation request is answered as changed (200)
\* exactly when the code names an active record owned by the caller; any other
\* request of an authenticated caller, a second deactivation by the owner
\* included, is answered 404 and leaves every record as it was.
C24_DeactivateOnce ==
    [][ \A h \in OwnerRequests.callers, c \in OwnerRequests.codes :
            DeactivateStep(h, c) =>
                LET changed == resp'.status = 200
                IN  /\ changed <=>
                            /\ getAuthUser(h) # NULL
                            /\ ActiveRecord(c) # NULL
                            /\ Val(ActiveRecord(c)).user_id = getAuthUser(h)
                    /\ getAuthUser(h) # NULL /\ ~changed =>
                            resp'.status = 404 /\ qr_codes' = qr_codes
      ]_vars

-----------------------------------------------------------------------------
(* Accounts *)

\* The sign-up handlers of both deployments over the request values in
Accounts(in) ==
    \/ \E e \in in.emails, p \in in.passwords : app_post_api_auth_signup(e, p)
    \/ \E e \in in.emails, p \in in.passwords : POST_api_auth_signup(e, p, in.inflight)
    \/ \E r \in BagToSet(inflight) : POST_api_auth_signup_createUser(r)

\* SpecSignup: sign-ups with a missing, a short and two acceptable passwords
\* for two addresses, two requests at a time, on an empty users table
SignupRequests ==
    [emails |-> Emails \cup {""},
     passwords |-> {"", "short", "hunter22", "s3cret99"},
     inflight |-> MaxRacing]

InitSignup == InitWith(<<>>)

NextSignup == Accounts(SignupRequests)

SpecSignup == InitSignup /\ [][NextSignup]_vars

\* the address has an account
Registered(email) == \E i \in DOMAIN users : users[i].email = email

\* a step in which a sign-up for email with an acceptable password is answered
SignupAnswer(in, email) ==
    \/ \E p \in in.passwords :
            /\ Len(p) >= 6
            /\ \/ app_post_api_auth_signup(email, p)
               \/ POST_api_auth_signup(email, p, in.inflight) /\ inflight' = inflight
    \/ \E r \in Pending("signup") : r.email = email /\ POST_api_auth_signup_createUser(r)

\* C25 (as claimed): no two accounts have the same email, and a sign-up for
\* an email that has an account creates none and is answered 409 'Email
\* already registered', also when the account was created by a concurrent
\* sign-up after this one's existence check.
C25_EmailUnique ==
    [][ /\ \A i, j \in DOMAIN users' : users'[i].email = users'[j].email => i = j
        /\ \A e \in Emails :
            SignupAnswer(SignupRequests, e) /\ Registered(e) =>
                /\ users' = users
                /\ resp'.status = 409
                /\ resp'.body = "Email already registered"
      ]_vars

-----------------------------------------------------------------------------
(* Fields fixed at creation, expiration and concurrent updates *)

\* a step in which a destination update of the caller for code is answered
UpdateStep(in, header, code) ==
    \E u \in in.updateUrls :
        app_put_api_qr(header, code, u) \/ PUT_api_qr_code(header, code, u)

\* a step in which a redirect request for code is answered, the not-found
\* answer of the next deployment's lookup included
AnswerStep(in, code) ==
    \/ ResolveStep(in, code)
    \/ LookupStep(in, code) /\ inflight' = inflight

\* the columns of a qr_codes row
RowFields ==
    {"short_code", "destination_url", "user_id", "scan_count", "created_at",
     "last_scanned_at", "expires_at", "password", "is_active"}

\* every row keeps the columns in fields over the step
Keeps(fields) ==
    /\ DOMAIN qr_codes' = DOMAIN qr_codes
    /\ \A i \in DOMAIN qr_codes : \A f \in fields : qr_codes'[i][f] = qr_codes[i][f]

\* C26: no step changes the code, owner, creation time, expiration time or
\* password hash of an existing record; a step that answers a redirect request
\* changes at most scan count and last-scan time, one that answers an update
\* at most the destination, one that answers a deactivation at most the
\* active flag.
C26_ImmutableFields ==
    [][ /\ \A i \in DOMAIN qr_codes :
            /\ i \in DOMAIN qr_codes'
            /\ \A f \in {"short_code", "user_id", "created_at", "expires_at", "password"} :
                    qr_codes'[i][f] = qr_codes[i][f]
        /\ \A c \in CoreRequests.codes :
            AnswerStep(CoreRequests, c) =>
                Keeps(RowFields \ {"scan_count", "last_scanned_at"})
        /\ \A h \in CoreRequests.callers, c \in CoreRequests.codes :
            /\ UpdateStep(CoreRequests, h, c) => Keeps(RowFields \ {"destination_url"})
            /\ DeactivateStep(h, c) => Keeps(RowFields \ {"is_active"})
      ]_vars

\* C26 witness: a record with a password and an expiration time has been
\* scanned, given a new destination and deactivated
C26_Witness ==
    /\ resp.op = "deactivate"
    /\ resp.status = 200
    /\ LET qr == Val(Record(Val(resp.code)))
       IN  /\ qr.password # NULL
           /\ qr.expires_at # NULL
           /\ qr.scan_count > 0
           /\ qr.destination_url = NewMenuUrl
           /\ qr.is_active = 0

\* C27: a record that is expired stays expired over every step, a redirect
\* request is answered EXPIRED only for a record that is expired, and a
\* redirect request for an expired record is answered EXPIRED or NOT_FOUND,
\* also after a destination update.
C27_ExpirationPermanent ==
    [][ /\ \A i \in DOMAIN qr_codes :
            Expired(qr_codes[i], now) =>
                i \in DOMAIN qr_codes' /\ Expired(qr_codes'[i], now')
        /\ \A c \in CoreRequests.codes :
            AnswerStep(CoreRequests, c) =>
                /\ Decision(resp') = "EXPIRED" =>
                        Record(c) # NULL /\ Expired(Val(Record(c)), now)
                /\ Record(c) # NULL /\ Expired(Val(Record(c)), now) =>
                        Decision(resp') \in {"EXPIRED", "NOT_FOUND"}
      ]_vars

\* C27 witness: a redirect request for an active record that has a new
\* destination is answered EXPIRED
C27_Witness ==
    /\ Decision(resp) = "EXPIRED"
    /\ ActiveRecord(Val(resp.code)) # NULL
    /\ Val(ActiveRecord(Val(resp.code))).destination_url = NewMenuUrl
    /\ Expired(Val(ActiveRecord(Val(resp.code))), now)

\* C28: the lookup of a redirect request keeps the row as it is at that
\* moment, and the ALLOWED answer redirects to the destination of that row or
\* to the one the record has when the answer is sent (the old or the new one
\* under a concurrent update) and raises the record's scan count by one.
C28_RedirectsToHeldDestination ==
    [][ /\ \A r \in BagToSet(inflight') :
            r.op = "resolve" /\ CopiesIn(r, inflight') > CopiesIn(r, inflight) =>
                ActiveRecord(r.code) # NULL /\ r.qr = Val(ActiveRecord(r.code))
        /\ \A r \in Pending("resolve") :
            GET_r_incrementScan(r) /\ Decision(resp') = "ALLOWED" =>
                /\ resp'.location \in {Some(r.qr.destination_url),
                                       Some(Val(Record(r.code)).destination_url)}
                /\ Val(Record(r.code))'.scan_count = Val(Record(r.code)).scan_count + 1
        /\ \A c \in RaceRequests.codes, p \in RaceRequests.providedPws :
            app_get_r(c, p) /\ Decision(resp') = "ALLOWED" =>
                /\ resp'.location = Some(Val(Record(c)).destination_url)
                /\ Val(Record(c))'.scan_count = Val(Record(c)).scan_count + 1
      ]_vars

\* C28 witness: an update was answered between the lookup and the answer of a
\* redirect request, which went to the old destination and counted one scan
C28_Witness ==
    /\ deployment = "next"
    /\ Decision(resp) = "ALLOWED"
    /\ resp.location = Some(MenuUrl)
    /\ Val(Record(Val(resp.code))).destination_url = NewMenuUrl
    /\ Val(Record(Val(resp.code))).scan_count = 1

-----------------------------------------------------------------------------
(* Tokens that do not verify, and expiration times that do not parse *)

\* SpecToken: three codes created with account 1's token and with a token
\* naming account 1 that does not verify, managed by account 1
TokenRequests ==
    [codes |-> {"c1", "c2", "c3"},
     creators |-> {BadBearer, Bearer(1)},
     callers |-> {Bearer(1)},
     createUrls |-> {MenuUrl},
     updateUrls |-> {MenuUrl},
     expiresAts |-> {NULL},
     qrPasswords |-> {NULL},
     inflight |-> MaxInflight]

NextToken == Registry(TokenRequests)

SpecToken == InitRace /\ [][NextToken]_vars

\* the account the token of BadBearer names
Named == Val(BadBearer).id

\* C29: a create request whose token does not verify is the step the same
\* request without a token is: it is never answered 401 or 403, does not wait
\* for a count, and the row it adds has no owner; the account the token names
\* does not see an ownerless row in its listing and its update and
\* deactivation of one are answered 404 and change nothing.
C29_InvalidTokenIsAnonymous ==
    [][ /\ \A u \in TokenRequests.createUrls, e \in TokenRequests.expiresAts,
              p \in TokenRequests.qrPasswords, c \in TokenRequests.codes :
            /\ app_post_api_qr(BadBearer, u, e, p, c) <=> app_post_api_qr(NULL, u, e, p, c)
            /\ POST_api_qr(BadBearer, u, e, p, c, TokenRequests.inflight)
                    <=> POST_api_qr(NULL, u, e, p, c, TokenRequests.inflight)
            /\ \/ app_post_api_qr(BadBearer, u, e, p, c)
               \/ POST_api_qr(BadBearer, u, e, p, c, TokenRequests.inflight)
               => /\ resp'.status \notin {401, 403}
                  /\ inflight' = inflight
                  /\ \A i \in DOMAIN qr_codes' \ DOMAIN qr_codes :
                        qr_codes'[i].user_id = NULL
                  /\ ~HasCode(qr_codes, c) => HasCode(qr_codes', c)
        /\ \A c \in TokenRequests.codes :
            Record(c) # NULL /\ Val(Record(c)).user_id = NULL =>
                /\ ListStep(Bearer(Named)) => c \notin Val(resp'.data).qrCodes
                /\ UpdateStep(TokenRequests, Bearer(Named), c) \/ DeactivateStep(Bearer(Named), c) =>
                        resp'.status = 404 /\ qr_codes' = qr_codes
      ]_vars

\* C29 witness: with the free limit of active records owned by the account
\* the token names, the last create was answered 201 and its row has no owner
C29_Witness ==
    /\ resp.op = "create"
    /\ resp.status = 201
    /\ Val(Record(Val(resp.code))).user_id = NULL
    /\ ActiveOwnedBy(Named) >= FreeLimit

\* SpecExpiry: one code created by account 1 with an expiration text that is
\* a date and one that is not, updated, deactivated and scanned under a clock
ExpiryRequests ==
    [codes |-> {"c1"},
     creators |-> {Bearer(1)},
     callers |-> {Bearer(1)},
     createUrls |-> {MenuUrl},
     updateUrls |-> {NewMenuUrl},
     expiresAts |-> {Some("next friday"), Some("1970-01-01T00:00:00Z")},
     qrPasswords |-> {NULL},
     providedPws |-> {NULL},
     inflight |-> MaxInflight]

NextExpiry == Registry(ExpiryRequests) \/ Resolver(ExpiryRequests) \/ Tick

SpecExpiry == InitRace /\ [][NextExpiry]_vars

\* C30: a create request with a valid destination is never answered 400,
\* whatever its expiration text, and the row it adds holds that text; a
\* redirect request for a record whose expiration text is no date is never
\* answered EXPIRED, and one answered EXPIRED is for a record whose
\* expiration text is a date earlier than the time of the answer.
C30_UnparseableNeverExpires ==
    [][ /\ \A c \in ExpiryRequests.codes, e \in ExpiryRequests.expiresAts :
            /\ \A h \in ExpiryRequests.creators, u \in ExpiryRequests.createUrls,
                  p \in ExpiryRequests.qrPasswords :
                /\ app_post_api_qr(h, u, e, p, c) =>
                        /\ resp'.status # 400
                        /\ resp'.status = 201 => Val(Record(c))'.expires_at = e
                /\ POST_api_qr(h, u, e, p, c, ExpiryRequests.inflight) =>
                        inflight' # inflight \/ resp'.status # 400
            /\ \A r \in Pending("create") :
                r.expiresAt = e /\ POST_api_qr_createQR(r, c) /\ resp'.status = 201 =>
                    Val(Record(c))'.expires_at = e
        /\ \A c \in ExpiryRequests.codes :
            AnswerStep(ExpiryRequests, c) /\ Record(c) # NULL =>
                LET text == Val(Record(c)).expires_at
                IN  /\ text # NULL /\ DateOf(Val(text)) = NULL =>
                            Decision(resp') # "EXPIRED"
                    /\ Decision(resp') = "EXPIRED" =>
                            /\ text # NULL
                            /\ DateOf(Val(text)) # NULL
                            /\ Val(DateOf(Val(text))) < now
      ]_vars

\* C30 witness: at a time after the clock has advanced, a redirect request
\* for a record whose expiration text is no date is answered ALLOWED
C30_Witness ==
    /\ Decision(resp) = "ALLOWED"
    /\ now > 0
    /\ Val(Record(Val(resp.code))).expires_at # NULL
    /\ DateOf(Val(Val(Record(Val(resp.code))).expires_at)) = NULL
    /\ Val(Record(Val(resp.code))).last_scanned_at = Some(now)

====
